---- MODULE Spec2Model ----
(***************************************************************************)
(* Adaptive Mastery & Curriculum Engine of CYBER-SENSEI.                   *)
(*                                                                         *)
(* The store is the relational database: the users table, the topic        *)
(* catalog, the quiz_questions table with the options of each question,    *)
(* and the user_progress table (one MasteryRecord per row).                *)
(* Probabilities are Python floats in the source; here they are exact      *)
(* non-negative rationals <<numerator, denominator>> in lowest terms, so   *)
(* the BKT arithmetic is carried out exactly (float rounding is not        *)
(* modelled).  Time is counted in days and the clock visits the instants   *)
(* at which a review interval of 2 or 7 days elapses.  The bookkeeping     *)
(* timestamps last_accessed_at and created_at, which no decision reads,    *)
(* are left out.  Topics are never deleted from the catalog.  A learner is  *)
(* named by its id.  An exception or HTTP error is the string              *)
(* "<kind>: <message>" the caller sees; percentages are formatted as the   *)
(* source formats them, rounded on the exact value.                        *)
(*                                                                         *)
(* Three more parts of the backend share the module: requests to the       *)
(* engine that overlap, each in its own database session (requests); the   *)
(* knowledge ingestion service (knowledge_documents, job); and the retry   *)
(* layer with its circuit breaker and dead letter queue (breaker,          *)
(* dead_letter_queue, call), where the clock counts seconds.  Each         *)
(* specification moves the variables of its own part and leaves the        *)
(* others as they are after construction.                                  *)
(***************************************************************************)
EXTENDS Integers, Sequences, FiniteSets, TLC

VARIABLES users, topics, quiz_questions, user_progress, now, result,
          requests, knowledge_documents, job,
          breaker, dead_letter_queue, call

vars == <<users, topics, quiz_questions, user_progress, now, result,
          requests, knowledge_documents, job,
          breaker, dead_letter_queue, call>>

\* the requests in flight, the ingestion service and the retry layer: what
\* an operation of the engine that runs alone in its transaction leaves alone
outside == <<requests, knowledge_documents, job,
             breaker, dead_letter_queue, call>>

(***************************************************************************)
(* Bounds of the model.                                                    *)
(***************************************************************************)
MaxUsers == 1
MaxTopics == 2
MaxRows == 2
MaxAttempts == 1
MaxUpdates == 2
MaxQuestions == 2
MaxRequests == 2
MaxStoredAttempts == 2
MaxDocuments == 2
MaxCalls == 3
MaxRetries == 3
MaxClock == 100

(***************************************************************************)
(* Exact rational arithmetic on <<n, d>> with n >= 0, d > 0.               *)
(***************************************************************************)
RECURSIVE GCD(_, _)
GCD(a, b) == IF b = 0 THEN a ELSE GCD(b, a % b)

Frac(n, d) == LET g == GCD(n, d) IN <<n \div g, d \div g>>

QAdd(a, b) ==
    LET g == GCD(a[2], b[2])
        L == (a[2] \div g) * b[2]
    IN  Frac(a[1] * (L \div a[2]) + b[1] * (L \div b[2]), L)

\* a - b, for a >= b
QSub(a, b) ==
    LET g == GCD(a[2], b[2])
        L == (a[2] \div g) * b[2]
    IN  Frac(a[1] * (L \div a[2]) - b[1] * (L \div b[2]), L)

QMul(a, b) ==
    LET g1 == GCD(a[1], b[2])
        g2 == GCD(b[1], a[2])
    IN  Frac((a[1] \div g1) * (b[1] \div g2), (a[2] \div g2) * (b[2] \div g1))

\* a / b, for b > 0
QDiv(a, b) == QMul(a, <<b[2], b[1]>>)

QLeq(a, b) == a[1] * b[2] <= b[1] * a[2]
QLt(a, b) == a[1] * b[2] < b[1] * a[2]
QMin(a, b) == IF QLeq(a, b) THEN a ELSE b
QMax(a, b) == IF QLeq(a, b) THEN b ELSE a

Zero == <<0, 1>>
One == <<1, 1>>

(***************************************************************************)
(* Program constants.                                                      *)
(***************************************************************************)
\* engines/progress.py: BKT_DEFAULTS
BKT_DEFAULTS ==
    [p_init |-> <<1, 5>>, p_learn |-> <<3, 10>>,
     p_guess |-> <<1, 5>>, p_slip |-> <<1, 10>>]

\* models/progress.py: column defaults of UserProgress
COLUMN_DEFAULTS ==
    [mastery_probability |-> <<1, 5>>, slip_probability |-> <<1, 10>>,
     guess_probability |-> <<1, 4>>, learn_probability |-> <<1, 10>>,
     total_attempts |-> 0, correct_attempts |-> 0,
     status |-> "not_started", completion_percentage |-> 0]

\* status thresholds of update_mastery
MASTERED_THRESHOLD == <<9, 10>>
IN_PROGRESS_THRESHOLD == <<1, 2>>

\* review intervals in days
MASTERED_REVIEW_DAYS == 7
IN_PROGRESS_REVIEW_DAYS == 2
NOT_STARTED_REVIEW_DAYS == 1

\* completion_percentage cut-off of the candidate filter in get_next_step
COMPLETED_PERCENTAGE == 95

\* sort key used for a topic whose order is 0 or NULL
ORDER_FALLBACK == 999

\* NULL timestamp
NULL == -1

\* inputs of create_topic
Orders == {0, 1}
Difficulties == {"beginner"}

\* inputs of update_user_progress
CompletionInputs == {95, 101}

\* the instants (in days) at which requests reach the engine
Instants == {0, 2, 7}

(***************************************************************************)
(* The state outside the engine before any request, ingestion task or      *)
(* wrapped call has started.                                               *)
(***************************************************************************)
\* a request slot with no request in flight
NoRequest ==
    [pc |-> "idle", op |-> "", user_id |-> 0, topic_id |-> 0,
     is_correct |-> FALSE, id |-> 0, loaded |-> <<>>]

\* no ingestion task is running
NoJob == [task |-> "", document_id |-> 0, pc |-> "idle"]

\* CircuitBreaker.__init__: the defaults of the global instance
FAILURE_THRESHOLD == 5
TIMEOUT == 60

\* opened_at is not a field of the source: it records the instant at which
\* the state last changed to open, for the properties to read
NewCircuitBreaker ==
    [failure_threshold |-> FAILURE_THRESHOLD, timeout |-> TIMEOUT,
     failure_count |-> 0, last_failure_time |-> NULL, state |-> "closed",
     opened_at |-> NULL]

\* DeadLetterQueue.__init__: the default capacity of the global instance
MAX_QUEUE_SIZE == 1000

\* no call through a retry wrapper has been made
NoCall ==
    [pc |-> "idle", id |-> 0, config |-> <<>>, attempt |-> 0,
     invocations |-> 0, last_error |-> <<>>, raised_by_func |-> <<>>,
     outcome |-> <<>>]

Quiescent ==
    /\ requests = [r \in 1..MaxRequests |-> NoRequest]
    /\ knowledge_documents = <<>>
    /\ job = NoJob
    /\ breaker = NewCircuitBreaker
    /\ dead_letter_queue = <<>>
    /\ call = NoCall

(***************************************************************************)
(* Store queries.                                                          *)
(***************************************************************************)
TopicIds == 1..Len(topics)

\* db.query(User).filter_by(username=username).first(): a user is named by
\* its id, so the lookup succeeds iff the id is in the users table
UserExists(username) == username \in users

\* indices of the rows of user_progress for the pair, in table order
MatchingRows(user_id, topic_id) ==
    {i \in 1..Len(user_progress) :
        /\ user_progress[i].user_id = user_id
        /\ user_progress[i].topic_id = topic_id}

\* .filter_by(user_id=..., topic_id=...).first(): 0 stands for None
FirstRow(user_id, topic_id) ==
    LET m == MatchingRows(user_id, topic_id)
    IN  IF m = {} THEN 0 ELSE CHOOSE i \in m : \A j \in m : i <= j

\* attempts recorded over the whole table
RECURSIVE SumAttempts(_)
SumAttempts(rows) ==
    IF rows = <<>> THEN 0 ELSE Head(rows).total_attempts + SumAttempts(Tail(rows))

TotalAttempts == SumAttempts(user_progress)

HasRow(user_id, topic_id) == FirstRow(user_id, topic_id) # 0
RowOf(user_id, topic_id) == user_progress[FirstRow(user_id, topic_id)]

(***************************************************************************)
(* Mastery Estimator: ProgressTracker.update_mastery.                      *)
(***************************************************************************)
\* Python's `x or default` on a float: 0.0 is falsy
OrDefault(x, default) == IF x[1] = 0 THEN default ELSE x

\* NewProgress with the BKT columns left to their column defaults
NewProgressColumnDefaults(user_id, topic_id) ==
    [user_id |-> user_id, topic_id |-> topic_id,
     mastery_probability |-> COLUMN_DEFAULTS.mastery_probability,
     learn_probability |-> COLUMN_DEFAULTS.learn_probability,
     guess_probability |-> COLUMN_DEFAULTS.guess_probability,
     slip_probability |-> COLUMN_DEFAULTS.slip_probability,
     status |-> "not_started",
     total_attempts |-> COLUMN_DEFAULTS.total_attempts,
     correct_attempts |-> COLUMN_DEFAULTS.correct_attempts,
     completion_percentage |-> COLUMN_DEFAULTS.completion_percentage,
     next_review_date |-> NULL]

\* the UserProgress object built when the pair has no row; columns the
\* constructor leaves out take their column default at INSERT
NewProgress(user_id, topic_id) ==
    [user_id |-> user_id, topic_id |-> topic_id,
     mastery_probability |-> BKT_DEFAULTS.p_init,
     learn_probability |-> BKT_DEFAULTS.p_learn,
     guess_probability |-> BKT_DEFAULTS.p_guess,
     slip_probability |-> BKT_DEFAULTS.p_slip,
     status |-> "not_started",
     total_attempts |-> COLUMN_DEFAULTS.total_attempts,
     correct_attempts |-> COLUMN_DEFAULTS.correct_attempts,
     completion_percentage |-> COLUMN_DEFAULTS.completion_percentage,
     next_review_date |-> NULL]

\* Posterior with the likelihood of the unmastered case not weighted by
\* 1 - p_known
PosteriorUnweighted(p_known, p_slip, p_guess, is_correct) ==
    IF is_correct
    THEN LET hit == QMul(p_known, QSub(One, p_slip))
             p_observed == QAdd(hit, p_guess)
         IN  IF QLt(Zero, p_observed) THEN QDiv(hit, p_observed) ELSE p_known
    ELSE LET miss == QMul(p_known, p_slip)
             p_observed == QAdd(miss, QSub(One, p_guess))
         IN  IF QLt(Zero, p_observed) THEN QDiv(miss, p_observed) ELSE p_known

\* p_known_new: the Bayesian posterior given the observation
Posterior(p_known, p_slip, p_guess, is_correct) ==
    IF is_correct
    THEN LET hit == QMul(p_known, QSub(One, p_slip))
             p_observed == QAdd(hit, QMul(QSub(One, p_known), p_guess))
         IN  IF QLt(Zero, p_observed) THEN QDiv(hit, p_observed) ELSE p_known
    ELSE LET miss == QMul(p_known, p_slip)
             p_observed == QAdd(miss, QMul(QSub(One, p_known), QSub(One, p_guess)))
         IN  IF QLt(Zero, p_observed) THEN QDiv(miss, p_observed) ELSE p_known

\* ApplyLearning written p_known_new + p_learn, without the clamp
ApplyLearningUnclamped(p_known_new, p_learn) == QAdd(p_known_new, p_learn)

\* min(1.0, max(0.0, p_known_new + (1 - p_known_new) * p_learn))
ApplyLearning(p_known_new, p_learn) ==
    QMin(One, QMax(Zero, QAdd(p_known_new, QMul(QSub(One, p_known_new), p_learn))))

\* the new mastery_probability of a row
NewMastery(progress, is_correct) ==
    LET p_known == OrDefault(progress.mastery_probability, BKT_DEFAULTS.p_init)
        p_slip == OrDefault(progress.slip_probability, BKT_DEFAULTS.p_slip)
        p_guess == OrDefault(progress.guess_probability, BKT_DEFAULTS.p_guess)
        p_learn == OrDefault(progress.learn_probability, BKT_DEFAULTS.p_learn)
    IN  ApplyLearning(Posterior(p_known, p_slip, p_guess, is_correct), p_learn)

\* CountAttempts crediting every attempt as correct
CountAttemptsAllCorrect(progress, is_correct) ==
    [progress EXCEPT
        !.total_attempts = @ + 1,
        !.correct_attempts = @ + 1]

\* attempt tracking
CountAttempts(progress, is_correct) ==
    [progress EXCEPT
        !.total_attempts = @ + 1,
        !.correct_attempts = IF is_correct THEN @ + 1 ELSE @]

\* status and next review from the new probability
StatusOf(p) ==
    IF QLeq(MASTERED_THRESHOLD, p) THEN "mastered"
    ELSE IF QLeq(IN_PROGRESS_THRESHOLD, p) THEN "in_progress"
    ELSE "not_started"

\* ReviewDaysOf with the in_progress and not_started intervals exchanged
ReviewDaysOfExchanged(p) ==
    IF QLeq(MASTERED_THRESHOLD, p) THEN MASTERED_REVIEW_DAYS
    ELSE IF QLeq(IN_PROGRESS_THRESHOLD, p) THEN NOT_STARTED_REVIEW_DAYS
    ELSE IN_PROGRESS_REVIEW_DAYS

ReviewDaysOf(p) ==
    IF QLeq(MASTERED_THRESHOLD, p) THEN MASTERED_REVIEW_DAYS
    ELSE IF QLeq(IN_PROGRESS_THRESHOLD, p) THEN IN_PROGRESS_REVIEW_DAYS
    ELSE NOT_STARTED_REVIEW_DAYS

\* the row as update_mastery leaves it before the commit
UpdatedProgress(progress, is_correct) ==
    LET p == NewMastery(progress, is_correct)
    IN  [CountAttempts(progress, is_correct) EXCEPT
            !.mastery_probability = p,
            !.status = StatusOf(p),
            !.next_review_date = now + ReviewDaysOf(p)]

Result(op, user, topic, is_correct, outcome, type, value) ==
    [op |-> op, user |-> user, topic |-> topic, is_correct |-> is_correct,
     outcome |-> outcome, type |-> type, value |-> value]

\* no call of the engine or of its boundary has returned since the store
\* or the clock last changed under it
NoResult == Result("none", 0, 0, FALSE, "", "", Zero)

\* the outcome of a call that raised: no value is returned
Failure(op, outcome) == Result(op, 0, 0, FALSE, outcome, "", Zero)

\* messages of the exceptions raised by the engines
NO_QUIZ == "No quiz defined for this topic."
INVALID_USER_ID == "Invalid user_id"
INVALID_TOPIC_ID == "Invalid topic_id"

\* an exception or HTTP error as the caller sees it: its kind and message
Raised(kind, message) == kind \o ": " \o message

\* db.rollback() that keeps the pending changes of the session
RollbackKeepingPending(stored, pending) == pending

\* db.rollback(): the pending changes of the session are discarded
Rollback(stored, pending) == stored

\* the table as update_mastery(user_id, topic_id, is_correct) leaves it in
\* the session before the commit
PendingUpdate(user_id, topic_id, is_correct) ==
    LET i == FirstRow(user_id, topic_id)
        progress == IF i = 0 THEN NewProgress(user_id, topic_id)
                    ELSE user_progress[i]
        updated == UpdatedProgress(progress, is_correct)
    IN  IF i = 0 THEN Append(user_progress, updated)
        ELSE [user_progress EXCEPT ![i] = updated]

\* the ValueError with which update_mastery rejects its arguments, "" if it
\* accepts them
ArgumentError(user_id, topic_id) ==
    IF user_id <= 0 THEN Raised("ValueError", INVALID_USER_ID)
    ELSE IF topic_id <= 0 THEN Raised("ValueError", INVALID_TOPIC_ID)
    ELSE ""

\* update_mastery(user_id, topic_id, is_correct); the commit may fail, in
\* which case the session is rolled back and the exception re-raised
update_mastery(user_id, topic_id, is_correct) ==
    /\ UNCHANGED <<users, topics, quiz_questions, now>>
    /\ UNCHANGED outside
    /\ IF ArgumentError(user_id, topic_id) # ""
       THEN /\ UNCHANGED user_progress
            /\ result' = Failure("update_mastery", ArgumentError(user_id, topic_id))
       ELSE LET i == FirstRow(user_id, topic_id)
                progress == IF i = 0 THEN NewProgress(user_id, topic_id)
                            ELSE user_progress[i]
                updated == UpdatedProgress(progress, is_correct)
                pending == PendingUpdate(user_id, topic_id, is_correct)
            IN  \/ /\ user_progress' = pending
                   /\ result' = Result("update_mastery", user_id, topic_id,
                                       is_correct, "ok", "",
                                       updated.mastery_probability)
                \/ /\ user_progress' = Rollback(user_progress, pending)
                   /\ result' = Failure("update_mastery", "rollback")

(***************************************************************************)
(* Curriculum Selector: CurriculumEngine.get_next_step.                    *)
(***************************************************************************)
\* Unicode code points of the difficulty labels: Python orders str values
\* code point by code point
CodePoints(difficulty) ==
    CASE difficulty = "beginner" -> <<98, 101, 103, 105, 110, 110, 101, 114>>
      [] difficulty = "intermediate" ->
            <<105, 110, 116, 101, 114, 109, 101, 100, 105, 97, 116, 101>>
      [] difficulty = "advanced" -> <<97, 100, 118, 97, 110, 99, 101, 100>>
      [] difficulty = "expert" -> <<101, 120, 112, 101, 114, 116>>

\* a < b for sequences of code points (str.__lt__)
RECURSIVE SeqLt(_, _)
SeqLt(a, b) ==
    IF b = <<>> THEN FALSE
    ELSE IF a = <<>> THEN TRUE
    ELSE IF Head(a) # Head(b) THEN Head(a) < Head(b)
    ELSE SeqLt(Tail(a), Tail(b))

\* lambda t: (t.order or 999, t.difficulty or 1)
SortKey(t) ==
    <<IF topics[t].order = 0 THEN ORDER_FALLBACK ELSE topics[t].order,
      CodePoints(topics[t].difficulty)>>

\* tuple comparison key(a) <= key(b)
KeyLeq(a, b) ==
    \/ SortKey(a)[1] < SortKey(b)[1]
    \/ /\ SortKey(a)[1] = SortKey(b)[1]
       /\ ~SeqLt(SortKey(b)[2], SortKey(a)[2])

\* DueRows with the date test written next_review_date < now
DueRowsStrict(user_id) ==
    {i \in 1..Len(user_progress) :
        /\ user_progress[i].topic_id \in TopicIds
        /\ user_progress[i].user_id = user_id
        /\ user_progress[i].next_review_date # NULL
        /\ user_progress[i].next_review_date < now
        /\ user_progress[i].status \in {"in_progress", "mastered"}}

\* rows of the learner that are due for review, joined with their topic
DueRows(user_id) ==
    {i \in 1..Len(user_progress) :
        /\ user_progress[i].topic_id \in TopicIds
        /\ user_progress[i].user_id = user_id
        /\ user_progress[i].next_review_date # NULL
        /\ user_progress[i].next_review_date <= now
        /\ user_progress[i].status \in {"in_progress", "mastered"}}

\* EarliestDue with the ordering descending
LatestDue(user_id) ==
    {i \in DueRows(user_id) :
        \A j \in DueRows(user_id) :
            user_progress[i].next_review_date >= user_progress[j].next_review_date}

\* .order_by(next_review_date).first(): the store may return any of the
\* rows with the earliest date
EarliestDue(user_id) ==
    {i \in DueRows(user_id) :
        \A j \in DueRows(user_id) :
            user_progress[i].next_review_date <= user_progress[j].next_review_date}

\* the subquery: topics of the learner filtered out as completed
CompletedTopicIds(user_id) ==
    {user_progress[i].topic_id : i \in
        {j \in 1..Len(user_progress) :
            /\ user_progress[j].user_id = user_id
            /\ user_progress[j].completion_percentage >= COMPLETED_PERCENTAGE}}

CandidateTopics(user_id) == TopicIds \ CompletedTopicIds(user_id)

\* candidate_topics.sort(key=...)[0]: a candidate with the least key (the
\* order among equal keys is the order the store returned them in)
BestTopics(user_id) ==
    {t \in CandidateTopics(user_id) :
        \A c \in CandidateTopics(user_id) : KeyLeq(t, c)}

\* NextSteps offering the due reviews and the new topics side by side
NextStepsUnordered(username) ==
    IF ~UserExists(username) THEN {<<"error", 0>>}
    ELSE IF DueRows(username) = {} /\ CandidateTopics(username) = {}
    THEN {<<"complete", 0>>}
    ELSE {<<"review", user_progress[i].topic_id>> : i \in EarliestDue(username)}
         \cup {<<"new", t>> : t \in BestTopics(username)}

\* the outcomes get_next_step can return in the current store state, as
\* <<type, topic_id>>
NextSteps(username) ==
    IF ~UserExists(username) THEN {<<"error", 0>>}
    ELSE IF DueRows(username) # {}
    THEN {<<"review", user_progress[i].topic_id>> : i \in EarliestDue(username)}
    ELSE IF CandidateTopics(username) = {} THEN {<<"complete", 0>>}
    ELSE {<<"new", t>> : t \in BestTopics(username)}

get_next_step(username) ==
    /\ UNCHANGED <<users, topics, quiz_questions, user_progress, now>>
    /\ UNCHANGED outside
    /\ \E step \in NextSteps(username) :
          result' = Result("get_next_step", username, step[2], FALSE,
                           "ok", step[1], Zero)

(***************************************************************************)
(* Boundary operations that write the store.                               *)
(***************************************************************************)
\* CompletedProgress built like the record of a first quiz attempt
CompletedProgressAsFirstAttempt(user_id, topic_id) == NewProgress(user_id, topic_id)

\* the UserProgress object built by mark_topic_complete for a new pair
CompletedProgress(user_id, topic_id) ==
    [user_id |-> user_id, topic_id |-> topic_id,
     status |-> "mastered",
     mastery_probability |-> One,
     slip_probability |-> COLUMN_DEFAULTS.slip_probability,
     guess_probability |-> COLUMN_DEFAULTS.guess_probability,
     learn_probability |-> COLUMN_DEFAULTS.learn_probability,
     total_attempts |-> COLUMN_DEFAULTS.total_attempts,
     correct_attempts |-> COLUMN_DEFAULTS.correct_attempts,
     completion_percentage |-> COLUMN_DEFAULTS.completion_percentage,
     next_review_date |-> NULL]

\* POST /{username}/topic/{topic_id}/complete
mark_topic_complete(username, topic_id) ==
    /\ UNCHANGED <<users, topics, quiz_questions, now>>
    /\ UNCHANGED outside
    /\ IF topic_id <= 0
       THEN /\ UNCHANGED user_progress
            /\ result' = Failure("mark_topic_complete", "400")
       ELSE IF ~UserExists(username) \/ topic_id \notin TopicIds
       THEN /\ UNCHANGED user_progress
            /\ result' = Failure("mark_topic_complete", "404")
       ELSE LET i == FirstRow(username, topic_id)
                progress ==
                    IF i = 0 THEN CompletedProgress(username, topic_id)
                    ELSE [user_progress[i] EXCEPT
                            !.status = "mastered",
                            !.mastery_probability = One]
                marked == [progress EXCEPT
                            !.next_review_date = now + MASTERED_REVIEW_DAYS]
            IN  \/ /\ user_progress' =
                        IF i = 0 THEN Append(user_progress, marked)
                        ELSE [user_progress EXCEPT ![i] = marked]
                   /\ result' = Result("mark_topic_complete", username,
                                       topic_id, FALSE, "ok", "", Zero)
                \/ /\ UNCHANGED user_progress
                   /\ result' = Failure("mark_topic_complete", "500")

\* PUT /progress/{topic_id}: sets the completion signal of an existing row.
\* For a pair
\* without a row the constructor is given the unknown keyword last_accessed
\* and raises, so nothing is stored.
update_user_progress(current_user, topic_id, completion_percentage) ==
    /\ UNCHANGED <<users, topics, quiz_questions, now>>
    /\ UNCHANGED outside
    /\ IF ~(0 <= completion_percentage /\ completion_percentage <= 100)
       THEN /\ UNCHANGED user_progress
            /\ result' = Failure("update_user_progress", "400")
       ELSE LET i == FirstRow(current_user, topic_id)
            IN  IF i = 0
                THEN /\ UNCHANGED user_progress
                     /\ result' = Failure("update_user_progress", "TypeError")
                ELSE /\ user_progress' =
                            [user_progress EXCEPT
                                ![i].completion_percentage = completion_percentage]
                     /\ result' = Result("update_user_progress", current_user,
                                         topic_id, FALSE, "ok", "", Zero)

\* POST /topics: the catalog grows by one topic with the next id
create_topic(order, difficulty) ==
    /\ topics' = Append(topics, [order |-> order, difficulty |-> difficulty])
    /\ UNCHANGED <<users, quiz_questions, user_progress, now>>
    /\ UNCHANGED outside
    /\ result' = NoResult

\* POST /register: the users table grows by one user with the next id
register_user ==
    /\ users' = users \cup {Cardinality(users) + 1}
    /\ UNCHANGED <<topics, quiz_questions, user_progress, now>>
    /\ UNCHANGED outside
    /\ result' = NoResult

\* time passes until a later instant (datetime.utcnow() advances)
Tick ==
    /\ \E t \in Instants : t > now /\ now' = t
    /\ UNCHANGED <<users, topics, quiz_questions, user_progress>>
    /\ UNCHANGED outside
    /\ result' = NoResult

(***************************************************************************)
(* Quiz Grader: QuizEngine.  A row of quiz_questions has the id of its     *)
(* position; its options are held in option_key order, the order in which  *)
(* the relationship loads them.                                            *)
(***************************************************************************)
NoCorrectOptionAsNoQuiz(id) == NO_QUIZ

NoCorrectOption(id) ==
    "Question '" \o ToString(id) \o "' does not have a correct option configured."

\* ids of the questions of the topic, in ascending id order, from id i on
RECURSIVE FetchFrom(_, _)
FetchFrom(i, topic_id) ==
    IF i > Len(quiz_questions) THEN <<>>
    ELSE (IF quiz_questions[i].topic_id = topic_id THEN <<i>> ELSE <<>>)
            \o FetchFrom(i + 1, topic_id)

fetch_questions(topic_id) == FetchFrom(1, topic_id)

QuestionIds(topic_id) ==
    LET questions == fetch_questions(topic_id)
    IN  {questions[k] : k \in 1..Len(questions)}

\* the option of a quiz payload with the correctness flag left in
QuizOptionPayloadWithFlag(option) ==
    [key |-> option.option_key, label |-> option.label,
     is_correct |-> option.is_correct]

\* {"key": option.option_key, "label": option.label}
QuizOptionPayload(option) ==
    [key |-> option.option_key, label |-> option.label]

\* the payload entry of one question
QuizQuestionPayload(id, question) ==
    [id |-> id, prompt |-> question.prompt, explanation |-> question.explanation,
     options |-> [j \in 1..Len(question.options) |->
                    QuizOptionPayload(question.options[j])]]

\* the payload get_quiz builds from a given table of questions
QuizPayloadOf(questions, ids) ==
    [k \in 1..Len(ids) |-> QuizQuestionPayload(ids[k], questions[ids[k]])]

QuizPayload(topic_id) == QuizPayloadOf(quiz_questions, fetch_questions(topic_id))

\* CorrectOption falling back on the first option when none is marked
CorrectOptionDefaulting(question) ==
    LET marked == {j \in 1..Len(question.options) : question.options[j].is_correct}
    IN  IF marked = {} THEN <<question.options[1].option_key>>
        ELSE <<question.options[CHOOSE j \in marked : \A k \in marked : j <= k].option_key>>

\* next((option.option_key for option in question.options if
\* option.is_correct), None): <<>> stands for None
CorrectOption(question) ==
    LET marked == {j \in 1..Len(question.options) : question.options[j].is_correct}
    IN  IF marked = {} THEN <<>>
        ELSE <<question.options[CHOOSE j \in marked : \A k \in marked : j <= k].option_key>>

\* `not correct_option`: None and the empty string are falsy
Falsy(correct_option) == correct_option = <<>> \/ correct_option = <<"">>

\* ids of the questions of the topic for which get_answer_key raises
Unkeyed(topic_id) ==
    {i \in QuestionIds(topic_id) : Falsy(CorrectOption(quiz_questions[i]))}

\* AnswerKeyError accepting a topic without questions
AnswerKeyErrorAllowingEmpty(topic_id) ==
    LET unkeyed == Unkeyed(topic_id)
    IN  IF unkeyed # {}
        THEN NoCorrectOption(CHOOSE i \in unkeyed : \A j \in unkeyed : i <= j)
        ELSE ""

\* the message of the ValueError get_answer_key raises, "" if it returns
AnswerKeyError(topic_id) ==
    LET unkeyed == Unkeyed(topic_id)
    IN  IF fetch_questions(topic_id) = <<>> THEN NO_QUIZ
        ELSE IF unkeyed # {}
        THEN NoCorrectOption(CHOOSE i \in unkeyed : \A j \in unkeyed : i <= j)
        ELSE ""

\* the answer key get_answer_key returns: str(question.id) -> option key
AnswerKey(topic_id) ==
    LET ids == QuestionIds(topic_id)
    IN  [q_id \in {ToString(i) : i \in ids} |->
            CorrectOption(quiz_questions[CHOOSE i \in ids : ToString(i) = q_id])[1]]

\* Tally counting only the questions the learner answered
TallyOfAnswered(key, answers) ==
    <<Cardinality({q_id \in DOMAIN key :
                    q_id \in DOMAIN answers /\ answers[q_id] = key[q_id]}),
      Cardinality(DOMAIN key \cap DOMAIN answers)>>

\* (correct, total) of grade_submission: answers.get(q_id) == correct_answer
Tally(key, answers) ==
    <<Cardinality({q_id \in DOMAIN key :
                    q_id \in DOMAIN answers /\ answers[q_id] = key[q_id]}),
      Cardinality(DOMAIN key)>>

\* what get_quiz(topic_id) returns or raises
GetQuiz(topic_id) ==
    IF fetch_questions(topic_id) = <<>>
    THEN Failure("get_quiz", Raised("ValueError", NO_QUIZ))
    ELSE Result("get_quiz", 0, topic_id, FALSE, "ok", "", QuizPayload(topic_id))

get_quiz(topic_id) ==
    /\ UNCHANGED <<users, topics, quiz_questions, user_progress, now>>
    /\ UNCHANGED outside
    /\ result' = GetQuiz(topic_id)

\* what get_answer_key(topic_id) returns or raises
GetAnswerKey(topic_id) ==
    LET error == AnswerKeyError(topic_id)
    IN
    IF error # ""
    THEN Failure("get_answer_key", Raised("ValueError", error))
    ELSE Result("get_answer_key", 0, topic_id, FALSE, "ok", "", AnswerKey(topic_id))

get_answer_key(topic_id) ==
    /\ UNCHANGED <<users, topics, quiz_questions, user_progress, now>>
    /\ UNCHANGED outside
    /\ result' = GetAnswerKey(topic_id)

\* what grade_submission(topic_id, answers) returns or raises
GradeSubmission(topic_id, answers) ==
    LET error == AnswerKeyError(topic_id)
    IN
    IF error # ""
    THEN Failure("grade_submission", Raised("ValueError", error))
    ELSE Result("grade_submission", 0, topic_id, FALSE, "ok", "",
                Tally(AnswerKey(topic_id), answers))

grade_submission(topic_id, answers) ==
    /\ UNCHANGED <<users, topics, quiz_questions, user_progress, now>>
    /\ UNCHANGED outside
    /\ result' = GradeSubmission(topic_id, answers)

\* f"{x:.0%}": the percentage rounded to an integer, ties to even
FormatPercent(x) ==
    LET n == 100 * x[1]
        q == n \div x[2]
        r == n % x[2]
        rounded == IF 2 * r < x[2] THEN q
                   ELSE IF 2 * r > x[2] THEN q + 1
                   ELSE IF q % 2 = 0 THEN q ELSE q + 1
    IN  ToString(rounded) \o "%"

\* SubmitRejection accepting an empty answer map
SubmitRejectionAllowingEmpty(username, topic_id, answers) ==
    IF topic_id <= 0 THEN Raised("400", INVALID_TOPIC_ID)
    ELSE IF ~UserExists(username) THEN Raised("404", "User not found")
    ELSE IF topic_id \notin TopicIds THEN Raised("404", "Topic not found")
    ELSE IF GradeSubmission(topic_id, answers).outcome # "ok"
    THEN Raised("400", AnswerKeyError(topic_id))
    ELSE IF Tally(AnswerKey(topic_id), answers)[2] = 0
    THEN Raised("400", "No valid questions found for this topic")
    ELSE ""

\* the HTTP error with which submit_quiz rejects the request before it
\* calls update_mastery, "" if it does not
SubmitRejection(username, topic_id, answers) ==
    IF topic_id <= 0 THEN Raised("400", INVALID_TOPIC_ID)
    ELSE IF DOMAIN answers = {} THEN Raised("400", "Answers are required")
    ELSE IF ~UserExists(username) THEN Raised("404", "User not found")
    ELSE IF topic_id \notin TopicIds THEN Raised("404", "Topic not found")
    ELSE IF GradeSubmission(topic_id, answers).outcome # "ok"
    THEN Raised("400", AnswerKeyError(topic_id))
    ELSE IF Tally(AnswerKey(topic_id), answers)[2] = 0
    THEN Raised("400", "No valid questions found for this topic")
    ELSE ""

\* the observation passed on, taken as correct when at least half of the
\* questions are
PassedByMajority(tally) == 2 * tally[1] >= tally[2]

\* correct == total: the observation passed to update_mastery
Passed(tally) == tally[1] = tally[2]

\* POST /{username}/submit-quiz: grades the answers and calls
\* update_mastery(user.id, topic_id, correct == total); a failed commit is
\* rolled back by update_mastery and surfaces as a 500
submit_quiz(username, topic_id, answers) ==
    /\ UNCHANGED <<users, topics, quiz_questions, now>>
    /\ UNCHANGED outside
    /\ LET rejection == SubmitRejection(username, topic_id, answers)
       IN
       IF rejection # ""
       THEN /\ UNCHANGED user_progress
            /\ result' = Failure("submit_quiz", rejection)
       ELSE LET tally == Tally(AnswerKey(topic_id), answers)
                is_correct == Passed(tally)
                pending == PendingUpdate(username, topic_id, is_correct)
                final_mastery ==
                    pending[IF HasRow(username, topic_id)
                            THEN FirstRow(username, topic_id)
                            ELSE Len(pending)].mastery_probability
            IN  \/ /\ user_progress' = pending
                   /\ result' = Result("submit_quiz", username, topic_id,
                                       is_correct, "ok", "",
                                       <<tally[1], tally[2],
                                         FormatPercent(final_mastery)>>)
                \/ /\ user_progress' = Rollback(user_progress, pending)
                   /\ result' = Failure("submit_quiz",
                                        Raised("500", "Failed to submit quiz"))

(***************************************************************************)
(* Dashboard: ProgressTracker.generate_dashboard_data.                     *)
(***************************************************************************)
\* rows of the learner, in table order
RECURSIVE ProgressListFrom(_, _)
ProgressListFrom(i, user_id) ==
    IF i > Len(user_progress) THEN <<>>
    ELSE (IF user_progress[i].user_id = user_id THEN <<user_progress[i]>> ELSE <<>>)
            \o ProgressListFrom(i + 1, user_id)

\* the breakdown entry of one row; a topic is named by its id
TopicEntry(progress) ==
    [name |-> progress.topic_id,
     mastery |-> FormatPercent(progress.mastery_probability),
     status |-> progress.status]

DashboardData(user_id) ==
    LET progress_list == ProgressListFrom(1, user_id)
        total_topics == Len(progress_list)
        mastered_topics ==
            Cardinality({k \in 1..Len(progress_list) :
                            progress_list[k].status = "mastered"})
        at_least_one == IF total_topics > 1 THEN total_topics ELSE 1
    IN  [overall |->
            [total |-> at_least_one,
             mastered |-> mastered_topics,
             progress_percentage |->
                IF total_topics # 0
                THEN QMul(Frac(mastered_topics, at_least_one), <<100, 1>>)
                ELSE Zero],
         topics |-> [k \in 1..Len(progress_list) |-> TopicEntry(progress_list[k])]]

\* generate_dashboard_data(username): {} for an unknown user
generate_dashboard_data(username) ==
    /\ UNCHANGED <<users, topics, quiz_questions, user_progress, now>>
    /\ UNCHANGED outside
    /\ IF ~UserExists(username)
       THEN result' = Result("generate_dashboard_data", username, 0, FALSE,
                             "ok", "", <<>>)
       ELSE result' = Result("generate_dashboard_data", username, 0, FALSE,
                             "ok", "", DashboardData(username))

(***************************************************************************)
(* Specification of the engine over the store.                             *)
(***************************************************************************)
\* the table has a row for the pair, or room for one more
RoomFor(user_id, topic_id) ==
    HasRow(user_id, topic_id) \/ Len(user_progress) < MaxRows

Init ==
    /\ Quiescent
    /\ users = {}
    /\ topics = <<>>
    /\ quiz_questions = <<>>
    /\ user_progress = <<>>
    /\ now = 0
    /\ result = NoResult

Next ==
    \/ \E u \in {0} \cup users, t \in 0..Len(topics), c \in BOOLEAN :
          /\ TotalAttempts < MaxAttempts
          /\ RoomFor(u, t)
          /\ update_mastery(u, t, c)
    \/ \E u \in 1..MaxUsers : get_next_step(u)
    \/ \E u \in 1..MaxUsers : generate_dashboard_data(u)
    \/ \E u \in 1..MaxUsers, t \in 0..MaxTopics :
          /\ RoomFor(u, t)
          /\ mark_topic_complete(u, t)
    \/ \E u \in users, t \in TopicIds, pct \in CompletionInputs :
          update_user_progress(u, t, pct)
    \/ \E o \in Orders, d \in Difficulties :
          /\ Len(topics) < MaxTopics
          /\ create_topic(o, d)
    \/ /\ Cardinality(users) < MaxUsers
       /\ register_user
    \/ Tick

Spec == Init /\ [][Next]_vars

(***************************************************************************)
(* Specification of the Mastery Estimator alone: update_mastery applied to *)
(* a pair that has no row yet, or to a stored row whose probability and    *)
(* BKT parameters are any values of a grid over [0, 1] (the columns are    *)
(* overridable per record and carry no range constraint).                  *)
(***************************************************************************)
Grid == {<<0, 1>>, <<1, 10>>, <<1, 5>>, <<3, 10>>, <<1, 2>>, <<9, 10>>, <<1, 1>>}

StoredProgress(p, s, g, l) ==
    [user_id |-> 1, topic_id |-> 1,
     mastery_probability |-> p,
     slip_probability |-> s,
     guess_probability |-> g,
     learn_probability |-> l,
     status |-> COLUMN_DEFAULTS.status,
     total_attempts |-> COLUMN_DEFAULTS.total_attempts,
     correct_attempts |-> COLUMN_DEFAULTS.correct_attempts,
     completion_percentage |-> COLUMN_DEFAULTS.completion_percentage,
     next_review_date |-> NULL]

InitBKT ==
    /\ Quiescent
    /\ users = {1}
    /\ topics = <<[order |-> 1, difficulty |-> "beginner"]>>
    /\ quiz_questions = <<>>
    /\ user_progress \in
          {<<>>} \cup {<<StoredProgress(p, s, g, l)>> : p \in Grid, s \in Grid,
                                                        g \in Grid, l \in Grid}
    /\ now = 0
    /\ result = NoResult

NextBKT ==
    \E c \in BOOLEAN :
        /\ TotalAttempts < MaxUpdates
        /\ update_mastery(1, 1, c)

SpecBKT == InitBKT /\ [][NextBKT]_vars

(***************************************************************************)
(* Specification of the Curriculum Selector over a given catalog: the      *)
(* catalog is any sequence of topics the content layer can have stored,    *)
(* and the learner marks topics complete and reports completion.           *)
(***************************************************************************)
CatalogOrders == {0, 1, 2}
CatalogDifficulties == {"beginner", "intermediate", "advanced"}

CatalogTopics ==
    [order : CatalogOrders, difficulty : CatalogDifficulties]

Catalogs ==
    UNION {[1..n -> CatalogTopics] : n \in 1..MaxTopics}

InitCatalog ==
    /\ Quiescent
    /\ users = {1}
    /\ topics \in Catalogs
    /\ quiz_questions = <<>>
    /\ user_progress = <<>>
    /\ now = 0
    /\ result = NoResult

NextCatalog ==
    \/ get_next_step(1)
    \/ \E t \in TopicIds :
          /\ RoomFor(1, t)
          /\ mark_topic_complete(1, t)
    \/ \E t \in TopicIds, pct \in CompletionInputs :
          update_user_progress(1, t, pct)

SpecCatalog == InitCatalog /\ [][NextCatalog]_vars

(***************************************************************************)
(* Specification of the Quiz Grader over a given question bank: the bank   *)
(* is any table of questions the content layer can have stored for the     *)
(* topics of the catalog, each question with the options A and B and any   *)
(* marking of them as correct; learners read quizzes and submit answers,   *)
(* and at most MaxAttempts submissions are accepted.                       *)
(***************************************************************************)
OptionLists ==
    {<<[option_key |-> "A", label |-> "a", is_correct |-> a],
       [option_key |-> "B", label |-> "b", is_correct |-> b]>> :
        a \in BOOLEAN, b \in BOOLEAN}

BankQuestions ==
    [topic_id : 1..MaxTopics, prompt : {"prompt"}, explanation : {""},
     options : OptionLists]

Banks == UNION {[1..n -> BankQuestions] : n \in 0..MaxQuestions}

\* answer maps of a submission: question id (as a string) -> option key;
\* "9" is the id of no question
AnswerIds == {"1", "2", "9"}
AnswerMaps ==
    {answers \in UNION {[ids -> {"A", "B"}] : ids \in SUBSET AnswerIds} :
        "9" \in DOMAIN answers => answers["9"] = "A"}

\* the answer maps learners submit: nothing, one answer, both answers in
\* either arrangement, an answer to an unknown question, alone and with
\* an answer to a stored one
Submissions ==
    {<<>>,
     "1" :> "A",
     "1" :> "A" @@ "2" :> "B",
     "1" :> "B" @@ "2" :> "A",
     "2" :> "B" @@ "9" :> "A",
     "9" :> "A"}

InitQuiz ==
    /\ Quiescent
    /\ users = {1}
    /\ topics = [t \in 1..MaxTopics |-> [order |-> t, difficulty |-> "beginner"]]
    /\ quiz_questions \in Banks
    /\ user_progress = <<>>
    /\ now = 0
    /\ result = NoResult

NextQuiz ==
    \/ \E t \in 0..(MaxTopics + 1) : get_quiz(t)
    \/ \E t \in 0..(MaxTopics + 1) : get_answer_key(t)
    \/ \E t \in 0..(MaxTopics + 1), answers \in Submissions :
          grade_submission(t, answers)
    \/ \E u \in 1..(MaxUsers + 1), t \in 0..(MaxTopics + 1), answers \in Submissions :
          /\ SubmitRejection(u, t, answers) = "" => TotalAttempts < MaxAttempts
          /\ submit_quiz(u, t, answers)
    \/ \E u \in 0..1, t \in 0..1, c \in BOOLEAN :
          /\ ArgumentError(u, t) = "" => TotalAttempts < MaxAttempts
          /\ update_mastery(u, t, c)

SpecQuiz == InitQuiz /\ [][NextQuiz]_vars

(***************************************************************************)
(* Specification of the reading operations next to the writing ones: a     *)
(* catalog of equally ranked topics, a bank of at most one question (of    *)
(* the first topic, with any marking of its options), and                  *)
(* learners who read the recommendation, the quiz, the answer key, a       *)
(* grading and the dashboard between quiz results, completions and the     *)
(* passing of time.                                                        *)
(***************************************************************************)
InitReads ==
    /\ Quiescent
    /\ users = {1}
    /\ topics = [t \in 1..MaxTopics |-> [order |-> 1, difficulty |-> "beginner"]]
    /\ quiz_questions \in
          {bank \in Banks : Len(bank) <= 1 /\ \A k \in DOMAIN bank : bank[k].topic_id = 1}
    /\ user_progress = <<>>
    /\ now = 0
    /\ result = NoResult

NextReads ==
    \/ \E u \in 1..(MaxUsers + 1) : get_next_step(u)
    \/ \E t \in TopicIds : get_quiz(t)
    \/ \E t \in TopicIds : get_answer_key(t)
    \/ \E t \in TopicIds, answers \in Submissions :
          grade_submission(t, answers)
    \/ \E u \in 1..(MaxUsers + 1) : generate_dashboard_data(u)
    \/ \E u \in users, t \in TopicIds, c \in BOOLEAN :
          /\ TotalAttempts < MaxAttempts
          /\ update_mastery(u, t, c)
    \/ \E u \in users, t \in TopicIds :
          /\ RoomFor(u, t)
          /\ mark_topic_complete(u, t)
    \/ Tick

SpecReads == InitReads /\ [][NextReads]_vars

(***************************************************************************)
(* Overlapping requests.  Every request runs in a session of its own       *)
(* (get_db): it loads the row of the pair with its query, works on the     *)
(* loaded object in memory, and writes at db.commit().  No row is locked   *)
(* and no version column is checked, so between the query of a request and *)
(* its commit other requests may query and commit.  The commit of a        *)
(* request that found no row INSERTs one; the commit of a request that     *)
(* loaded a row UPDATEs that row by primary key, and the SET clause of the *)
(* UPDATE carries the attributes whose value in the session differs from   *)
(* the value loaded.  The table has no unique constraint on                *)
(* (user_id, topic_id).                                                    *)
(***************************************************************************)
\* the request slots
Requests == 1..MaxRequests

\* what the ingestion service and the retry layer hold
services == <<knowledge_documents, job, breaker, dead_letter_queue, call>>

\* the request as it stands after its query: id is the primary key of the
\* row loaded (0 for None), loaded the row as it was read
Loaded(op, user_id, topic_id, is_correct) ==
    LET i == FirstRow(user_id, topic_id)
    IN  [pc |-> "loaded", op |-> op, user_id |-> user_id,
         topic_id |-> topic_id, is_correct |-> is_correct, id |-> i,
         loaded |-> IF i = 0 THEN <<>> ELSE user_progress[i]]

\* the row after the UPDATE flushed for a loaded object; next_review_date is
\* computed from utcnow() at the call, a value no earlier call has stored
FlushUpdate(stored, loaded, pending) ==
    [column \in DOMAIN stored |->
        IF column = "next_review_date" \/ pending[column] # loaded[column]
        THEN pending[column]
        ELSE stored[column]]

\* the table after the flush of the session of request q, whose object is
\* pending
Flush(q, pending) ==
    IF q.id = 0 THEN Append(user_progress, pending)
    ELSE [user_progress EXCEPT ![q.id] = FlushUpdate(@, q.loaded, pending)]

\* the primary key of the row request q has written
WrittenId(q) == IF q.id = 0 THEN Len(user_progress) + 1 ELSE q.id

\* requests that found no row and have not committed yet
PendingInserts ==
    Cardinality({r \in Requests : requests[r].pc = "loaded" /\ requests[r].id = 0})

\* update_mastery up to its query
begin_update_mastery(r, user_id, topic_id, is_correct) ==
    /\ requests[r].pc = "idle"
    /\ UNCHANGED <<users, topics, quiz_questions, user_progress, now>>
    /\ UNCHANGED services
    /\ IF ArgumentError(user_id, topic_id) # ""
       THEN /\ UNCHANGED requests
            /\ result' = Failure("update_mastery", ArgumentError(user_id, topic_id))
       ELSE /\ requests' = [requests EXCEPT
                              ![r] = Loaded("update_mastery", user_id, topic_id,
                                            is_correct)]
            /\ result' = NoResult

\* update_mastery from its query to its return: the update in memory, the
\* commit (or the rollback if the commit fails), the value returned, read
\* back from the row
commit_update_mastery(r) ==
    LET q == requests[r]
        progress == IF q.id = 0 THEN NewProgress(q.user_id, q.topic_id)
                    ELSE q.loaded
        updated == UpdatedProgress(progress, q.is_correct)
    IN  /\ q.pc = "loaded"
        /\ q.op = "update_mastery"
        /\ UNCHANGED <<users, topics, quiz_questions, now>>
        /\ UNCHANGED services
        /\ requests' = [requests EXCEPT ![r] = NoRequest]
        /\ \/ /\ user_progress' = Flush(q, updated)
              /\ result' = Result("update_mastery", q.user_id, q.topic_id,
                                  q.is_correct, "ok", "",
                                  user_progress'[WrittenId(q)].mastery_probability)
           \/ /\ user_progress' = Rollback(user_progress, Flush(q, updated))
              /\ result' = Failure("update_mastery", "rollback")

\* mark_topic_complete up to its query of the progress row
begin_mark_topic_complete(r, username, topic_id) ==
    /\ requests[r].pc = "idle"
    /\ UNCHANGED <<users, topics, quiz_questions, user_progress, now>>
    /\ UNCHANGED services
    /\ IF topic_id <= 0
       THEN /\ UNCHANGED requests
            /\ result' = Failure("mark_topic_complete", "400")
       ELSE IF ~UserExists(username) \/ topic_id \notin TopicIds
       THEN /\ UNCHANGED requests
            /\ result' = Failure("mark_topic_complete", "404")
       ELSE /\ requests' = [requests EXCEPT
                              ![r] = Loaded("mark_topic_complete", username,
                                            topic_id, FALSE)]
            /\ result' = NoResult

\* mark_topic_complete from its query to its return
commit_mark_topic_complete(r) ==
    LET q == requests[r]
        progress == IF q.id = 0 THEN CompletedProgress(q.user_id, q.topic_id)
                    ELSE [q.loaded EXCEPT
                            !.status = "mastered",
                            !.mastery_probability = One]
        marked == [progress EXCEPT
                     !.next_review_date = now + MASTERED_REVIEW_DAYS]
    IN  /\ q.pc = "loaded"
        /\ q.op = "mark_topic_complete"
        /\ UNCHANGED <<users, topics, quiz_questions, now>>
        /\ UNCHANGED services
        /\ requests' = [requests EXCEPT ![r] = NoRequest]
        /\ \/ /\ user_progress' = Flush(q, marked)
              /\ result' = Result("mark_topic_complete", q.user_id, q.topic_id,
                                  FALSE, "ok", "", Zero)
           \/ /\ user_progress' = Rollback(user_progress, Flush(q, marked))
              /\ result' = Failure("mark_topic_complete", "500")

\* the attempts recorded in the row of the pair, 0 without a row
StoredAttempts(user_id, topic_id) ==
    IF HasRow(user_id, topic_id) THEN RowOf(user_id, topic_id).total_attempts
    ELSE 0

\* a request on the pair may start: the table has a row for it or room for
\* one more next to the rows about to be inserted
RoomForRequest(user_id, topic_id) ==
    HasRow(user_id, topic_id) \/ Len(user_progress) + PendingInserts < MaxRows

InitRace ==
    /\ Quiescent
    /\ users = {1}
    /\ topics = <<[order |-> 1, difficulty |-> "beginner"]>>
    /\ quiz_questions = <<>>
    /\ user_progress = <<>>
    /\ now = 0
    /\ result = NoResult

\* the slot a new request takes: the slots are interchangeable, so it is
\* the first free one
FreeSlot(r) ==
    /\ requests[r].pc = "idle"
    /\ \A other \in Requests : requests[other].pc = "idle" => r <= other

NextRace ==
    \/ \E r \in Requests, u \in 0..1, t \in 0..1, c \in BOOLEAN :
          /\ FreeSlot(r)
          /\ ArgumentError(u, t) = "" =>
                /\ RoomForRequest(u, t)
                /\ StoredAttempts(u, t) < MaxStoredAttempts
          /\ begin_update_mastery(r, u, t, c)
    \/ \E r \in Requests : commit_update_mastery(r)
    \/ \E r \in Requests, u \in 1..2, t \in 0..2 :
          /\ FreeSlot(r)
          /\ (UserExists(u) /\ t \in TopicIds) => RoomForRequest(u, t)
          /\ begin_mark_topic_complete(r, u, t)
    \/ \E r \in Requests : commit_mark_topic_complete(r)

SpecRace == InitRace /\ [][NextRace]_vars

\* overlapping update_mastery requests alone
NextOverlap ==
    \/ \E r \in Requests, u \in 0..1, t \in 0..1, c \in BOOLEAN :
          /\ FreeSlot(r)
          /\ ArgumentError(u, t) = "" =>
                /\ RoomForRequest(u, t)
                /\ StoredAttempts(u, t) < MaxStoredAttempts
          /\ begin_update_mastery(r, u, t, c)
    \/ \E r \in Requests : commit_update_mastery(r)

SpecOverlap == InitRace /\ [][NextOverlap]_vars

(***************************************************************************)
(* Knowledge ingestion: services/knowledge_ingestion.py.  A document is    *)
(* registered by the knowledge-base router with status registered; the     *)
(* tasks ingest_document and transcribe_video_task are run on a document   *)
(* id by the task queue, one at a time, any number of times.  A task       *)
(* commits the status after each stage, so every status it sets is stored  *)
(* and visible; job holds the task that is running and the stage it has    *)
(* reached.  Transcription can succeed or raise; indexing (add_source) can *)
(* return a message, return a message starting with "Error", or raise.     *)
(* The commits themselves are taken to succeed.                            *)
(***************************************************************************)
\* the engine's store, clock and last outcome
engine == <<users, topics, quiz_questions, user_progress, now, result>>

\* the retry layer
retry_layer == <<breaker, dead_letter_queue, call>>

DocTypes == {"document", "video"}

\* session.get(KnowledgeDocument, document_id) finds a row
DocumentExists(document_id) == document_id \in 1..Len(knowledge_documents)

\* doc.status = status; session.commit()
WithStatus(document_id, status) ==
    [knowledge_documents EXCEPT ![document_id].status = status]

Running(task, document_id, pc) ==
    [task |-> task, document_id |-> document_id, pc |-> pc]

\* the router registers an uploaded or added file
register_document(doc_type) ==
    /\ knowledge_documents' =
          Append(knowledge_documents, [doc_type |-> doc_type, status |-> "registered"])
    /\ UNCHANGED <<job, requests>>
    /\ UNCHANGED engine
    /\ UNCHANGED retry_layer

\* ingest_document up to its first commit: nothing for an unknown id, the
\* first commit of _handle_video_document for a video, "processing" for
\* any other document
ingest_document(document_id) ==
    /\ job = NoJob
    /\ UNCHANGED requests
    /\ UNCHANGED engine
    /\ UNCHANGED retry_layer
    /\ IF ~DocumentExists(document_id)
       THEN UNCHANGED <<knowledge_documents, job>>
       ELSE IF knowledge_documents[document_id].doc_type = "video"
       THEN /\ knowledge_documents' = WithStatus(document_id, "pending_transcription")
            /\ job' = Running("ingest_document", document_id, "queued")
       ELSE /\ knowledge_documents' = WithStatus(document_id, "processing")
            /\ job' = Running("ingest_document", document_id, "indexing")

\* transcribe_video_task up to the first commit of _handle_video_document,
\* which it calls on the document whatever its doc_type
transcribe_video_task(document_id) ==
    /\ job = NoJob
    /\ UNCHANGED requests
    /\ UNCHANGED engine
    /\ UNCHANGED retry_layer
    /\ IF ~DocumentExists(document_id)
       THEN UNCHANGED <<knowledge_documents, job>>
       ELSE /\ knowledge_documents' = WithStatus(document_id, "pending_transcription")
            /\ job' = Running("transcribe_video_task", document_id, "queued")

\* _handle_video_document: the commit that opens the transcription
start_transcription ==
    /\ job.pc = "queued"
    /\ knowledge_documents' = WithStatus(job.document_id, "transcribing")
    /\ job' = [job EXCEPT !.pc = "transcribing"]
    /\ UNCHANGED requests
    /\ UNCHANGED engine
    /\ UNCHANGED retry_layer

\* the stage after a transcript was written: ingest_document goes on to
\* index the transcript, transcribe_video_task drops the returned path and
\* returns
AfterTranscript(task) ==
    IF task = "ingest_document" THEN "indexing" ELSE "idle"

\* _handle_video_document from _transcribe_video to its return: the
\* transcript is written and the status committed as processing, or an
\* exception is caught and the status committed as failed, on which
\* ingest_document returns too
transcribe_video(succeeds) ==
    /\ job.pc = "transcribing"
    /\ UNCHANGED requests
    /\ UNCHANGED engine
    /\ UNCHANGED retry_layer
    /\ IF succeeds
       THEN /\ knowledge_documents' = WithStatus(job.document_id, "processing")
            /\ job' = IF AfterTranscript(job.task) = "idle" THEN NoJob
                      ELSE [job EXCEPT !.pc = AfterTranscript(job.task)]
       ELSE /\ knowledge_documents' = WithStatus(job.document_id, "failed")
            /\ job' = NoJob

\* outcomes of kb_manager.add_source
IndexingOutcomes == {"message", "Error", "raise"}

\* the status _ingest_source commits for the message returned, and the
\* except branch of ingest_document for an exception
IndexedStatus(outcome) ==
    IF outcome = "message" THEN "completed" ELSE "failed"

\* _ingest_source and the return of ingest_document
ingest_source(outcome) ==
    /\ job.pc = "indexing"
    /\ knowledge_documents' = WithStatus(job.document_id, IndexedStatus(outcome))
    /\ job' = NoJob
    /\ UNCHANGED requests
    /\ UNCHANGED engine
    /\ UNCHANGED retry_layer

InitIngestion ==
    /\ Quiescent
    /\ users = {}
    /\ topics = <<>>
    /\ quiz_questions = <<>>
    /\ user_progress = <<>>
    /\ now = 0
    /\ result = NoResult

NextIngestion ==
    \/ \E doc_type \in DocTypes :
          /\ Len(knowledge_documents) < MaxDocuments
          /\ register_document(doc_type)
    \/ \E d \in 1..(MaxDocuments + 1) : ingest_document(d)
    \/ \E d \in 1..(MaxDocuments + 1) : transcribe_video_task(d)
    \/ start_transcription
    \/ \E succeeds \in BOOLEAN : transcribe_video(succeeds)
    \/ \E outcome \in IndexingOutcomes : ingest_source(outcome)

SpecIngestion == InitIngestion /\ [][NextIngestion]_vars

(***************************************************************************)
(* Retry layer: retry_logic.py.  Every wrapper made by retry_with_backoff  *)
(* shares the global circuit breaker and dead letter queue.  A call        *)
(* through a wrapper is the loop over range(max_retries + 1); one          *)
(* iteration is one step, the sleep that ends it included.  Calls are made *)
(* one after the other, each with arguments of its own (its number), and   *)
(* time (in seconds) passes between calls and in the sleeps; the wrapped   *)
(* function returns or raises at once.  call holds the loop state of the   *)
(* running call, or the way the last call ended.  An exception is          *)
(* <<kind, message>>.  RetryMetrics, which nothing reads back, is left     *)
(* out; the jitter is taken in whole seconds.                              *)
(***************************************************************************)
\* the store and the ingestion service
beyond_retry == <<users, topics, quiz_questions, user_progress, result,
                  requests, knowledge_documents, job>>

\* retry_on of RetryConfig() and of retry_api_call()
RetryOnSets == {{"Exception"}, {"ConnectionError", "TimeoutError", "IOError"}}

\* RetryConfig(max_retries=..., retry_on=...), the delays left at their
\* defaults
RetryConfig(max_retries, retry_on) ==
    [max_retries |-> max_retries, initial_delay |-> 1, max_delay |-> 60,
     exponential_base |-> 2, jitter |-> TRUE, retry_on |-> retry_on]

Configs == {RetryConfig(m, ro) : m \in 0..MaxRetries, ro \in RetryOnSets}

\* what the wrapped function does when invoked: return, or raise
FuncErrors == {<<"ConnectionError", "unreachable">>, <<"ValueError", "bad input">>}
FuncOutcomes == {<<"ok", "">>} \cup FuncErrors

CIRCUIT_OPEN == <<"RuntimeError", "Circuit breaker is open">>

\* except config.retry_on as e: every exception is an Exception
Retryable(e, retry_on) == "Exception" \in retry_on \/ e[1] \in retry_on

\* CircuitBreaker.can_attempt: the value returned
CanAttempt(b) ==
    \/ b.state = "closed"
    \/ b.state = "half_open"
    \/ /\ b.state = "open"
       /\ b.last_failure_time # NULL
       /\ now - b.last_failure_time > b.timeout

\* CircuitBreaker.can_attempt: the breaker it leaves
AfterCanAttempt(b) ==
    IF b.state = "open" /\ CanAttempt(b) THEN [b EXCEPT !.state = "half_open"]
    ELSE b

\* CircuitBreaker.record_success
RecordSuccess(b) == [b EXCEPT !.failure_count = 0, !.state = "closed"]

\* CircuitBreaker.record_failure
RecordFailure(b) ==
    LET count == b.failure_count + 1
        opens == count >= b.failure_threshold
    IN  [b EXCEPT
            !.failure_count = count,
            !.last_failure_time = now,
            !.state = IF opens THEN "open" ELSE @,
            !.opened_at = IF opens /\ b.state # "open" THEN now ELSE @]

\* DeadLetterQueue.add_failed_task
AddFailedTask(queue, task_name, args, error, attempt) ==
    LET kept == IF Len(queue) >= MAX_QUEUE_SIZE THEN Tail(queue) ELSE queue
    IN  Append(kept, [task_name |-> task_name, args |-> args,
                      error |-> error[2], attempt |-> attempt])

\* calculate_backoff_delay without the jitter
BackoffDelay(attempt, config) ==
    LET delay == config.initial_delay * (config.exponential_base ^ attempt)
    IN  IF delay < config.max_delay THEN delay ELSE config.max_delay

\* the jitter added: up to 10% of the delay
Jitters(delay, config) == IF config.jitter THEN 0..(delay \div 10) ELSE {0}

\* a call through the wrapper starts: the locals before the loop
call_wrapper(config) ==
    /\ call.pc # "running"
    /\ call' = [pc |-> "running", id |-> call.id + 1, config |-> config,
                attempt |-> 0, invocations |-> 0, last_error |-> <<>>,
                raised_by_func |-> <<>>, outcome |-> <<>>]
    /\ UNCHANGED <<breaker, dead_letter_queue, now>>
    /\ UNCHANGED beyond_retry

\* one iteration of the loop: the breaker is asked, the function invoked
\* if the breaker allows it (func_outcome is what it does), and the
\* exception, if any, handled; the return after the loop is part of the
\* last iteration
attempt_call(func_outcome, jitter) ==
    LET config == call.config
        allowed == CanAttempt(breaker)
        asked == AfterCanAttempt(breaker)
        e == IF allowed THEN func_outcome ELSE CIRCUIT_OPEN
        invocations == IF allowed THEN call.invocations + 1 ELSE call.invocations
        raised_by_func == IF allowed /\ func_outcome[1] # "ok" THEN func_outcome
                          ELSE call.raised_by_func
        delay == BackoffDelay(call.attempt, config)
    IN  /\ call.pc = "running"
        /\ UNCHANGED beyond_retry
        /\ IF allowed /\ func_outcome[1] = "ok"
           THEN /\ breaker' = RecordSuccess(asked)
                /\ call' = [call EXCEPT !.pc = "returned",
                                        !.invocations = invocations]
                /\ UNCHANGED <<dead_letter_queue, now>>
           ELSE IF ~Retryable(e, config.retry_on)
           THEN /\ breaker' = asked
                /\ call' = [call EXCEPT !.pc = "raised", !.outcome = e,
                                        !.invocations = invocations,
                                        !.raised_by_func = raised_by_func]
                /\ UNCHANGED <<dead_letter_queue, now>>
           ELSE IF call.attempt < config.max_retries
           THEN /\ breaker' = RecordFailure(asked)
                /\ jitter \in Jitters(delay, config)
                /\ now' = now + delay + jitter
                /\ call' = [call EXCEPT !.attempt = @ + 1, !.last_error = e,
                                        !.invocations = invocations,
                                        !.raised_by_func = raised_by_func]
                /\ UNCHANGED dead_letter_queue
           ELSE /\ dead_letter_queue' =
                      AddFailedTask(dead_letter_queue, "func", call.id, e,
                                    call.attempt + 1)
                /\ breaker' = RecordFailure(asked)
                /\ call' = [call EXCEPT !.pc = "raised", !.last_error = e,
                                        !.outcome = e,
                                        !.invocations = invocations,
                                        !.raised_by_func = raised_by_func]
                /\ UNCHANGED now

\* the pauses between calls: the timeout of the breaker, and more
Pauses == {TIMEOUT, TIMEOUT + 1}

\* time passes between two calls
Elapse(seconds) ==
    /\ call.pc # "running"
    /\ now' = now + seconds
    /\ UNCHANGED <<breaker, dead_letter_queue, call>>
    /\ UNCHANGED beyond_retry

InitRetry ==
    /\ Quiescent
    /\ users = {}
    /\ topics = <<>>
    /\ quiz_questions = <<>>
    /\ user_progress = <<>>
    /\ now = 0
    /\ result = NoResult

NextRetry ==
    \/ \E config \in Configs :
          /\ call.id < MaxCalls
          /\ call_wrapper(config)
    \/ /\ call.pc = "running"
       /\ \E func_outcome \in FuncOutcomes,
             jitter \in Jitters(BackoffDelay(call.attempt, call.config), call.config) :
             /\ now + BackoffDelay(call.attempt, call.config) + jitter <= MaxClock
             /\ attempt_call(func_outcome, jitter)
    \/ \E seconds \in Pauses :
          /\ now + seconds <= MaxClock
          /\ Elapse(seconds)

SpecRetry == InitRetry /\ [][NextRetry]_vars

(***************************************************************************)
(* Properties.                                                             *)
(***************************************************************************)
IsNextStep == result.op = "get_next_step"
IsUpdate == result.op = "update_mastery" /\ result.outcome = "ok"

\* the step is a successful update_mastery of the pair
UpdatedPair(user_id, topic_id) ==
    /\ result'.op = "update_mastery"
    /\ result'.outcome = "ok"
    /\ result'.user = user_id
    /\ result'.topic = topic_id

\* a MasteryRecord that is due for review: its review time has passed and
\* its status is in_progress or mastered
DueRecord(r) ==
    /\ r.next_review_date # NULL
    /\ r.next_review_date <= now
    /\ r.status \in {"in_progress", "mastered"}

RecordsOf(user_id) ==
    {i \in 1..Len(user_progress) : user_progress[i].user_id = user_id}

HasDueReview(user_id) ==
    \E i \in RecordsOf(user_id) : DueRecord(user_progress[i])

\* the learner has reached >= 95% mastery-equivalent on the topic
EffectivelyComplete(user_id, topic_id) ==
    \E i \in RecordsOf(user_id) :
        /\ user_progress[i].topic_id = topic_id
        /\ \/ QLeq(<<19, 20>>, user_progress[i].mastery_probability)
           \/ user_progress[i].completion_percentage >= 95

\* C1: whenever a learner has at least one due review, get_next_step
\* returns the review outcome, never new or complete, whatever topics the
\* catalog holds.
C1_ReviewPriority ==
    (IsNextStep /\ result.user \in users /\ HasDueReview(result.user))
        => result.type = "review"

\* a review was returned while the catalog held a topic the learner had
\* never touched
C1_Witness ==
    /\ IsNextStep
    /\ result.type = "review"
    /\ \E t \in TopicIds : ~HasRow(result.user, t)

\* C2: once every topic of the catalog has reached >= 95%
\* mastery-equivalent for a learner, get_next_step returns complete.
C2_CompletionTerminal ==
    (/\ IsNextStep
     /\ result.user \in users
     /\ \A t \in TopicIds : EffectivelyComplete(result.user, t))
        => result.type = "complete"

\* C3: get_next_step never returns as new a topic on which the learner's
\* record is effectively complete (probability >= 0.95 or completion
\* signal >= 95%).
C3_NoCompletedTopicAsNew ==
    (IsNextStep /\ result.type = "new")
        => ~EffectivelyComplete(result.user, result.topic)

\* C4: immediately after a successful update_mastery the status and the
\* next review follow the band of the new probability: >= 0.9 mastered and
\* 7 days, [0.5, 0.9) in_progress and 2 days, < 0.5 not_started and 1 day.
C4_StatusConsistency ==
    IsUpdate =>
        /\ HasRow(result.user, result.topic)
        /\ LET r == RowOf(result.user, result.topic)
               p == r.mastery_probability
           IN  /\ p[1] * 10 >= 9 * p[2]
                    => r.status = "mastered" /\ r.next_review_date = now + 7
               /\ (p[1] * 2 >= p[2] /\ p[1] * 10 < 9 * p[2])
                    => r.status = "in_progress" /\ r.next_review_date = now + 2
               /\ p[1] * 2 < p[2]
                    => r.status = "not_started" /\ r.next_review_date = now + 1
               /\ r.status = "mastered" <=> p[1] * 10 >= 9 * p[2]
               /\ r.status = "not_started" <=> p[1] * 2 < p[2]

\* an update has just left a record in the in_progress band
C4_Witness ==
    /\ IsUpdate
    /\ HasRow(result.user, result.topic)
    /\ RowOf(result.user, result.topic).status = "in_progress"

\* C5: after every successful update_mastery on a record whose
\* probabilities lie in [0, 1], the stored and the returned
\* knowledge_probability lie in [0, 1].
C5_ProbabilityBounds ==
    IsUpdate =>
        LET p == RowOf(result.user, result.topic).mastery_probability
        IN  /\ result.value = p
            /\ p[2] > 0
            /\ 0 <= p[1]
            /\ p[1] <= p[2]

\* an update of a stored record with learn probability 0.9 returned 1.0
C5_Witness ==
    /\ IsUpdate
    /\ result.value = One
    /\ RowOf(result.user, result.topic).learn_probability = <<9, 10>>
    /\ RowOf(result.user, result.topic).total_attempts = 1

\* C6: each successful update_mastery increases total_attempts by exactly
\* 1 and correct_attempts by exactly 1 iff is_correct, and
\* correct_attempts <= total_attempts in every reachable state.
C6_MonotonicAttempts ==
    /\ [](\A i \in 1..Len(user_progress) :
            user_progress[i].correct_attempts <= user_progress[i].total_attempts)
    /\ [][\A u \in users, t \in TopicIds :
            UpdatedPair(u, t) =>
                LET total == IF HasRow(u, t) THEN RowOf(u, t).total_attempts ELSE 0
                    correct == IF HasRow(u, t) THEN RowOf(u, t).correct_attempts ELSE 0
                IN  /\ HasRow(u, t)'
                    /\ RowOf(u, t)'.total_attempts = total + 1
                    /\ RowOf(u, t)'.correct_attempts =
                            IF result'.is_correct THEN correct + 1 ELSE correct
          ]_vars

\* a record has taken two updates of which exactly one was correct
C6_Witness ==
    /\ IsUpdate
    /\ RowOf(result.user, result.topic).total_attempts = 2
    /\ RowOf(result.user, result.topic).correct_attempts = 1

\* the posterior and learning step on the record's own stored values
StoredPosterior(p, s, g, is_correct) ==
    LET num == IF is_correct THEN QMul(p, QSub(One, s)) ELSE QMul(p, s)
        den == IF is_correct
               THEN QAdd(num, QMul(QSub(One, p), g))
               ELSE QAdd(num, QMul(QSub(One, p), QSub(One, g)))
    IN  IF den[1] = 0 THEN p ELSE QDiv(num, den)

StoredUpdate(r, is_correct) ==
    LET q == StoredPosterior(r.mastery_probability, r.slip_probability,
                             r.guess_probability, is_correct)
        v == QAdd(q, QMul(QSub(One, q), r.learn_probability))
    IN  IF QLt(One, v) THEN One ELSE v

\* C7: for every existing record with stored p, s, g, l anywhere in [0, 1]
\* update_mastery stores and returns clamp(p' + (1 - p') * l, 0, 1) with p'
\* the posterior computed from the stored values, never from defaults.
C7_StoredParametersUsed ==
    [][\A u \in users, t \in TopicIds :
            (UpdatedPair(u, t) /\ HasRow(u, t)) =>
                /\ RowOf(u, t)'.mastery_probability =
                        StoredUpdate(RowOf(u, t), result'.is_correct)
                /\ result'.value = StoredUpdate(RowOf(u, t), result'.is_correct)
      ]_vars

\* C8: the first update_mastery of a pair without a record creates the
\* record and updates from p_init 0.2, slip 0.1, guess 0.2, learn 0.3 for
\* either value of is_correct; a correct first answer gives about 0.671
\* (57/85), in_progress and a review in 2 days.
C8_FirstAttemptFromDefaults ==
    [][\A u \in users, t \in TopicIds :
            (UpdatedPair(u, t) /\ ~HasRow(u, t)) =>
                /\ HasRow(u, t)'
                /\ RowOf(u, t)'.total_attempts = 1
                /\ RowOf(u, t)'.slip_probability = <<1, 10>>
                /\ RowOf(u, t)'.guess_probability = <<1, 5>>
                /\ RowOf(u, t)'.learn_probability = <<3, 10>>
                /\ result'.value = RowOf(u, t)'.mastery_probability
                /\ IF result'.is_correct
                   THEN /\ RowOf(u, t)'.mastery_probability = <<57, 85>>
                        /\ 670 * 85 < 57 * 1000
                        /\ 57 * 1000 < 672 * 85
                        /\ RowOf(u, t)'.status = "in_progress"
                        /\ RowOf(u, t)'.next_review_date = now + 2
                   ELSE RowOf(u, t)'.mastery_probability = <<53, 165>>
      ]_vars

\* a first, correct answer has created the record at 57/85
C8_Witness ==
    /\ IsUpdate
    /\ result.is_correct
    /\ LET r == RowOf(result.user, result.topic)
       IN  /\ r.total_attempts = 1
           /\ r.mastery_probability = <<57, 85>>
           /\ r.status = "in_progress"

\* C9: a review outcome names the topic of a due record of that learner
\* (review time passed, status in_progress or mastered), and no other due
\* record of the learner has a strictly earlier review time; a not_started
\* record is never returned as a review.
C9_EarliestDueReview ==
    (IsNextStep /\ result.type = "review") =>
        \E i \in RecordsOf(result.user) :
            /\ user_progress[i].topic_id = result.topic
            /\ DueRecord(user_progress[i])
            /\ user_progress[i].status # "not_started"
            /\ \A j \in RecordsOf(result.user) :
                  DueRecord(user_progress[j]) =>
                      user_progress[i].next_review_date
                          <= user_progress[j].next_review_date

\* a review was returned while the learner had two due records with
\* different review times
C9_Witness ==
    /\ IsNextStep
    /\ result.type = "review"
    /\ \E i, j \in RecordsOf(result.user) :
          /\ DueRecord(user_progress[i])
          /\ DueRecord(user_progress[j])
          /\ user_progress[i].next_review_date < user_progress[j].next_review_date

\* difficulty rank of the coarse difficulty label
DifficultyRank(difficulty) ==
    CASE difficulty = "beginner" -> 1
      [] difficulty = "intermediate" -> 2
      [] difficulty = "advanced" -> 3
      [] difficulty = "expert" -> 4

\* topic a ranks strictly before topic b under ascending
\* (order_hint, difficulty_rank)
RanksBefore(a, b) ==
    \/ topics[a].order < topics[b].order
    \/ /\ topics[a].order = topics[b].order
       /\ DifficultyRank(topics[a].difficulty) < DifficultyRank(topics[b].difficulty)

\* C10: a new outcome names a minimum of the candidate topics under
\* ascending (order_hint, difficulty_rank); an order hint of 0 ranks before
\* every positive one.
C10_RankedMinimum ==
    (IsNextStep /\ result.type = "new") =>
        \A c \in CandidateTopics(result.user) : ~RanksBefore(c, result.topic)

\* a topic the learner may be offered as new: the learner's record on it,
\* if any, is not effectively complete
EligibleTopic(user_id, topic_id) ==
    topic_id \in TopicIds /\ ~EffectivelyComplete(user_id, topic_id)

\* C11: get_next_step returns exactly one outcome whose type follows the
\* strict decision order: error iff the learner does not exist; otherwise
\* review iff a due review exists; otherwise new iff at least one candidate
\* topic exists; otherwise complete.
C11_DecisionOrder ==
    IsNextStep =>
        /\ result.type \in {"error", "review", "new", "complete"}
        /\ result.type = "error" <=> result.user \notin users
        /\ result.user \in users =>
              /\ result.type = "review" <=> HasDueReview(result.user)
              /\ ~HasDueReview(result.user) =>
                    /\ result.type = "new" <=>
                            \E t \in TopicIds : EligibleTopic(result.user, t)
                    /\ result.type = "complete" <=>
                            \A t \in TopicIds : ~EligibleTopic(result.user, t)

\* ids of the questions in the bank of the topic
BankIds(topic_id) ==
    {i \in 1..Len(quiz_questions) : quiz_questions[i].topic_id = topic_id}

\* keys of the options of the question that are marked correct
MarkedKeys(i) ==
    {quiz_questions[i].options[j].option_key :
        j \in {k \in 1..Len(quiz_questions[i].options) :
                    quiz_questions[i].options[k].is_correct}}

\* the topic has questions and each has exactly one option marked correct
ValidBank(topic_id) ==
    /\ BankIds(topic_id) # {}
    /\ \A i \in BankIds(topic_id) : Cardinality(MarkedKeys(i)) = 1

\* number of bank questions whose submitted answer is the keyed option
CorrectCount(topic_id, answers) ==
    Cardinality({i \in BankIds(topic_id) :
                    /\ ToString(i) \in DOMAIN answers
                    /\ {answers[ToString(i)]} = MarkedKeys(i)})

\* the answer map that answers every question of the topic with its keyed
\* option
TrueKey(topic_id) ==
    [q_id \in {ToString(i) : i \in BankIds(topic_id)} |->
        CHOOSE k \in {"A", "B"} :
            \E i \in BankIds(topic_id) : ToString(i) = q_id /\ MarkedKeys(i) = {k}]

\* C12: for every topic with a valid question bank and every answer map,
\* grade_submission returns (c, t) with t the number of questions in the
\* bank and c the number of bank questions whose submitted answer equals
\* the keyed correct option; so 0 <= c <= t, the answer key grades to
\* (t, t), the empty map to (0, t), unanswered questions count as
\* incorrect and entries for unknown question ids are ignored.
C12_GradingCorrectness ==
    \A topic_id \in TopicIds :
        ValidBank(topic_id) =>
            LET t == Cardinality(BankIds(topic_id))
            IN  /\ \A answers \in AnswerMaps :
                      LET graded == GradeSubmission(topic_id, answers)
                      IN  /\ graded.outcome = "ok"
                          /\ graded.value = <<CorrectCount(topic_id, answers), t>>
                          /\ 0 <= graded.value[1]
                          /\ graded.value[1] <= graded.value[2]
                /\ GradeSubmission(topic_id, TrueKey(topic_id)).value = <<t, t>>
                /\ GradeSubmission(topic_id, <<>>).value = <<0, t>>
                /\ (result.op = "grade_submission" /\ result.topic = topic_id) =>
                      \E answers \in AnswerMaps :
                          result.value = <<CorrectCount(topic_id, answers), t>>

\* a submission to a topic with two questions was graded one out of two
C12_Witness ==
    /\ result.op = "grade_submission"
    /\ result.outcome = "ok"
    /\ ValidBank(result.topic)
    /\ result.value = <<1, 2>>

\* the table of questions with the correctness flags replaced by marking
Remarked(questions, marking) ==
    [i \in 1..Len(questions) |->
        [questions[i] EXCEPT !.options =
            [j \in 1..Len(questions[i].options) |->
                [questions[i].options[j] EXCEPT !.is_correct = marking[i][j]]]]]

\* every way of marking the options of the stored questions
Markings == [1..Len(quiz_questions) -> [1..2 -> BOOLEAN]]

\* C13: the get_quiz payload does not depend on the correctness flags: any
\* two banks that differ only in which options are marked correct give the
\* same payload (the questions of the topic in ascending id order with the
\* same option keys and labels), and no field of the payload carries the
\* flag.
C13_PayloadHidesFlags ==
    /\ \A topic_id \in TopicIds, marking \in Markings :
            QuizPayloadOf(Remarked(quiz_questions, marking), fetch_questions(topic_id))
                = QuizPayload(topic_id)
    /\ (result.op = "get_quiz" /\ result.outcome = "ok") =>
            /\ result.value = QuizPayload(result.topic)
            /\ {result.value[k].id : k \in 1..Len(result.value)} = BankIds(result.topic)
            /\ \A k \in 1..Len(result.value) :
                  /\ k > 1 => result.value[k - 1].id < result.value[k].id
                  /\ DOMAIN result.value[k] = {"id", "prompt", "explanation", "options"}
                  /\ \A j \in 1..Len(result.value[k].options) :
                        /\ DOMAIN result.value[k].options[j] = {"key", "label"}
                        /\ result.value[k].options[j].key =
                                quiz_questions[result.value[k].id].options[j].option_key
                        /\ result.value[k].options[j].label =
                                quiz_questions[result.value[k].id].options[j].label

\* a quiz of two questions with different options marked correct was
\* returned
C13_Witness ==
    /\ result.op = "get_quiz"
    /\ result.outcome = "ok"
    /\ Len(result.value) = 2
    /\ MarkedKeys(result.value[1].id) = {"A"}
    /\ MarkedKeys(result.value[2].id) = {"B"}

\* the questions of the topic that have no option marked correct
Unmarked(topic_id) == {i \in BankIds(topic_id) : MarkedKeys(i) = {}}

\* the outcome is the configuration error of the engine about a question
\* of the topic that has no correct option
ConfigurationError(outcome, topic_id) ==
    \E i \in Unmarked(topic_id) : outcome = Raised("ValueError", NoCorrectOption(i))

\* C14: whenever at least one question of a topic has no option marked
\* correct, get_answer_key and grade_submission fail with a configuration
\* error for every answer map; they never return an answer key or a tally
\* that skips or defaults that question.
C14_MissingCorrectOptionFails ==
    /\ \A topic_id \in TopicIds :
            Unmarked(topic_id) # {} =>
                /\ ConfigurationError(GetAnswerKey(topic_id).outcome, topic_id)
                /\ \A answers \in AnswerMaps :
                      ConfigurationError(GradeSubmission(topic_id, answers).outcome,
                                         topic_id)
    /\ (result.op \in {"get_answer_key", "grade_submission"} /\ result.outcome = "ok")
            => Unmarked(result.topic) = {}

\* grading failed on a topic whose first question has a correct option and
\* whose second has none
C14_Witness ==
    /\ result.op = "grade_submission"
    /\ \E t \in TopicIds :
          /\ Unmarked(t) # {}
          /\ BankIds(t) \ Unmarked(t) # {}
          /\ ConfigurationError(result.outcome, t)

\* the error with which the engine reports that a topic has no quiz
NotFoundError == Raised("ValueError", NO_QUIZ)

\* C15: for a topic with zero quiz questions (including a topic id that
\* does not exist) get_quiz, get_answer_key and grade_submission each fail
\* with the not-found error; they never return an empty question list, an
\* empty key or the tally (0, 0).
C15_NoQuestionsNotFound ==
    /\ \A topic_id \in 0..(Len(topics) + 1) :
            BankIds(topic_id) = {} =>
                /\ GetQuiz(topic_id).outcome = NotFoundError
                /\ GetAnswerKey(topic_id).outcome = NotFoundError
                /\ \A answers \in AnswerMaps :
                      GradeSubmission(topic_id, answers).outcome = NotFoundError
    /\ (result.op = "get_quiz" /\ result.outcome = "ok") => result.value # <<>>
    /\ (result.op = "get_answer_key" /\ result.outcome = "ok")
            => DOMAIN result.value # {}
    /\ (result.op = "grade_submission" /\ result.outcome = "ok")
            => result.value # <<0, 0>>

\* grading failed with the not-found error while the bank held questions
\* of another topic only
C15_Witness ==
    /\ result.op = "grade_submission"
    /\ result.outcome = NotFoundError
    /\ quiz_questions # <<>>
    /\ \E t \in TopicIds : BankIds(t) = {}

\* the error outcomes surfaced, in the current store, for a topic that has
\* zero questions
NotFoundOutcomes ==
    UNION {{GetQuiz(t).outcome, GetAnswerKey(t).outcome}
            \cup {GradeSubmission(t, a).outcome : a \in AnswerMaps}
            \cup {SubmitRejection(u, t, a) :
                    u \in users, a \in {b \in AnswerMaps : DOMAIN b # {}}} :
           t \in {x \in TopicIds : BankIds(x) = {}}}

\* the error outcomes surfaced for a topic with a question that lacks a
\* correct option
InvalidConfigurationOutcomes ==
    UNION {{GetAnswerKey(t).outcome}
            \cup {GradeSubmission(t, a).outcome : a \in AnswerMaps}
            \cup {SubmitRejection(u, t, a) :
                    u \in users, a \in {b \in AnswerMaps : DOMAIN b # {}}} :
           t \in {x \in TopicIds : Unmarked(x) # {}}}

\* the error outcomes surfaced for a non-positive identifier
InvalidArgumentOutcomes ==
    {ArgumentError(ids[1], ids[2]) :
        ids \in {x \in (-1..1) \X (-1..1) : x[1] <= 0 \/ x[2] <= 0}}
        \cup {SubmitRejection(u, t, a) : u \in users, t \in -1..0, a \in AnswerMaps}

MustReject(username, topic_id, answers) ==
    \/ username \notin users
    \/ topic_id \notin TopicIds
    \/ DOMAIN answers = {}
    \/ BankIds(topic_id) = {}
    \/ Unmarked(topic_id) # {}

\* C17: every rejected mastery-changing request leaves the store
\* unchanged: update_mastery with learner_id <= 0 or topic_id <= 0 fails
\* with an argument error, a submit-quiz request for an unknown learner, an
\* unknown or non-positive topic, an empty answer map, a topic without a
\* quiz or a question lacking a correct option fails too, and a failed
\* request creates no record and changes no field of any record.
C17_RejectedLeavesStore ==
    /\ [](\A ids \in (-1..1) \X (-1..1) :
            (ids[1] <= 0 \/ ids[2] <= 0) =>
                ArgumentError(ids[1], ids[2]) \in
                    {Raised("ValueError", INVALID_USER_ID),
                     Raised("ValueError", INVALID_TOPIC_ID)})
    /\ [](\A username \in 1..(MaxUsers + 1), topic_id \in -1..(Len(topics) + 1),
             answers \in AnswerMaps :
                MustReject(username, topic_id, answers) =>
                    SubmitRejection(username, topic_id, answers) # "")
    /\ [][(/\ result'.op \in {"update_mastery", "submit_quiz"}
            /\ result'.outcome # "ok") => user_progress' = user_progress]_vars

\* a submission with an empty answer map was rejected while the learner
\* had a record
C17_Witness ==
    /\ result.op = "submit_quiz"
    /\ result.outcome = Raised("400", "Answers are required")
    /\ user_progress # <<>>

\* the probability, status and review time of the record were written
\* together: the status is the band of the probability and the review time
\* is the interval of that band after some instant up to now
WrittenTogether(r) ==
    /\ r.status = StatusOf(r.mastery_probability)
    /\ r.next_review_date # NULL
    /\ \E t \in 0..now :
          r.next_review_date = t + ReviewDaysOf(r.mastery_probability)

C19_MarkCompleteForcesMastery ==
    /\ []((result.op = "mark_topic_complete" /\ result.outcome = "ok") =>
            /\ result.user \in users
            /\ result.topic \in TopicIds
            /\ HasRow(result.user, result.topic)
            /\ RowOf(result.user, result.topic).status = "mastered"
            /\ RowOf(result.user, result.topic).mastery_probability = One
            /\ RowOf(result.user, result.topic).next_review_date = now + 7)
    /\ [][result'.op = "mark_topic_complete" =>
            \A u \in 1..MaxUsers, t \in 1..MaxTopics :
                mark_topic_complete(u, t) =>
                    IF u \in users /\ t \in TopicIds
                    THEN result'.outcome = "ok" =>
                            /\ Len(user_progress') =
                                    Len(user_progress) + (IF HasRow(u, t) THEN 0 ELSE 1)
                            /\ \A i \in 1..Len(user_progress) :
                                  i # FirstRow(u, t) => user_progress'[i] = user_progress[i]
                    ELSE /\ result'.outcome = "404"
                         /\ user_progress' = user_progress
          ]_vars

\* a record that had taken a quiz attempt was marked complete
C19_Witness ==
    /\ result.op = "mark_topic_complete"
    /\ result.outcome = "ok"
    /\ RowOf(result.user, result.topic).total_attempts = 1
    /\ RowOf(result.user, result.topic).correct_attempts = 0

\* the learner's records with status mastered
MasteredRecordsOf(user_id) ==
    {i \in RecordsOf(user_id) : user_progress[i].status = "mastered"}

\* C20: for an existing learner generate_dashboard_data reports a total
\* equal to the number of the learner's MasteryRecords (0 when the learner
\* has none), a mastered count equal to the number of those with status
\* mastered (so mastered <= total), an overall percentage of
\* 100 * mastered / total computed without division by zero, and exactly
\* one breakdown entry per record.
C20_DashboardTotals ==
    (result.op = "generate_dashboard_data" /\ result.user \in users) =>
        LET total == Cardinality(RecordsOf(result.user))
            mastered == Cardinality(MasteredRecordsOf(result.user))
        IN  /\ result.value.overall.total = total
            /\ result.value.overall.mastered = mastered
            /\ result.value.overall.mastered <= result.value.overall.total
            /\ result.value.overall.progress_percentage =
                    IF total = 0 THEN Zero ELSE Frac(100 * mastered, total)
            /\ Len(result.value.topics) = total


\* the step is the successful commit of request r
Commits(r) ==
    /\ requests[r].pc = "loaded"
    /\ requests'[r].pc = "idle"
    /\ result'.outcome = "ok"

\* C21: in every reachable state, whatever the interleaving of concurrent
\* update_mastery and mark_topic_complete requests, a (learner, topic) pair
\* has at most one MasteryRecord
C21_OneRecordPerPair ==
    \A u \in users, t \in TopicIds : Cardinality(MatchingRows(u, t)) <= 1

\* C22: overlapping update_mastery requests on an existing record never
\* leave a torn record: the record a request commits is the complete result
\* of that request's computation on the record it read, the stored status
\* is the band of the stored probability and correct_attempts does not
\* exceed total_attempts
C22_NoTornWrite ==
    /\ [](\A i \in 1..Len(user_progress) :
            /\ user_progress[i].status = StatusOf(user_progress[i].mastery_probability)
            /\ user_progress[i].correct_attempts <= user_progress[i].total_attempts)
    /\ [][\A r \in Requests :
            (Commits(r) /\ requests[r].id # 0) =>
                user_progress'[requests[r].id] =
                    UpdatedProgress(requests[r].loaded, requests[r].is_correct)]_vars

\* C23: across overlapping update_mastery requests on a record, the stored
\* total_attempts and correct_attempts never decrease from one committed
\* state to the next
C23_CountersNeverDecrease ==
    [][\A r \in Requests :
        (Commits(r) /\ requests[r].op = "update_mastery" /\ requests[r].id # 0) =>
            LET before == user_progress[requests[r].id]
                after == user_progress'[requests[r].id]
            IN  /\ after.total_attempts >= before.total_attempts
                /\ after.correct_attempts >= before.correct_attempts]_vars

\* the operations that only read
ReadOnlyOps ==
    {"get_next_step", "get_quiz", "get_answer_key", "grade_submission",
     "generate_dashboard_data"}

\* the tables of the store
store == <<users, topics, quiz_questions, user_progress>>

\* what update_mastery(u, t, _) reads of the state: the row of the pair
\* (none for a pair without a row) and the clock
UpdateInputs(u, t) ==
    <<FirstRow(u, t), IF HasRow(u, t) THEN RowOf(u, t) ELSE <<>>, now>>

\* C24: get_next_step, get_quiz, get_answer_key, grade_submission and
\* generate_dashboard_data are read-only: a call leaves every persisted
\* record unchanged, the outcomes a call can have in a store state at an
\* instant are all of one type, and a call changes nothing of what a later
\* update_mastery reads, hence nothing of its result
C24_ReadOnly ==
    /\ [](\A u \in 1..(MaxUsers + 1) :
            \A a \in NextSteps(u), b \in NextSteps(u) : a[1] = b[1])
    /\ [][result'.op \in ReadOnlyOps =>
            /\ UNCHANGED store
            /\ \A u \in users, t \in TopicIds :
                  UpdateInputs(u, t)' = UpdateInputs(u, t)]_vars

\* a read-only call has returned while the learner has a record and the
\* selector has several equally ranked topics to choose from
C24_Witness ==
    /\ result.op \in ReadOnlyOps
    /\ user_progress # <<>>
    /\ Cardinality(NextSteps(1)) > 1

\* C25: a successful submit_quiz performs exactly one update_mastery for
\* the (learner, topic) pair, with is_correct true iff correct_count equals
\* total_count, that is iff every question of the bank was answered with
\* its keyed option; total_attempts grows by exactly 1 whatever the number
\* of questions, and a submission with a wrong or missing answer is
\* recorded as an incorrect observation
C25_OneUpdatePerSubmission ==
    [][(result'.op = "submit_quiz" /\ result'.outcome = "ok") =>
        LET u == result'.user
            t == result'.topic
        IN  /\ user_progress' = PendingUpdate(u, t, result'.is_correct)
            /\ TotalAttempts' = TotalAttempts + 1
            /\ result'.is_correct <=> result'.value[1] = result'.value[2]
            /\ \A answers \in Submissions :
                  (ValidBank(t) /\ submit_quiz(u, t, answers)) =>
                      (result'.is_correct <=>
                          \A i \in BankIds(t) :
                              /\ ToString(i) \in DOMAIN answers
                              /\ {answers[ToString(i)]} = MarkedKeys(i))]_vars

\* a submission answering one of two questions correctly was accepted and
\* recorded as one incorrect attempt
C25_Witness ==
    /\ result.op = "submit_quiz"
    /\ result.outcome = "ok"
    /\ ValidBank(result.topic)
    /\ result.value[1] = 1
    /\ result.value[2] = 2
    /\ ~result.is_correct
    /\ RowOf(result.user, result.topic).total_attempts = 1
    /\ RowOf(result.user, result.topic).correct_attempts = 0

\* C26: a knowledge probability of 1.0 is absorbing under quiz evidence:
\* every update_mastery, correct or incorrect, of a record with
\* probability 1.0 and a positive slip probability leaves the probability
\* at 1.0 and the status mastered
C26_CertainMasteryAbsorbing ==
    [][\A u \in users, t \in TopicIds :
        (/\ UpdatedPair(u, t)
         /\ HasRow(u, t)
         /\ RowOf(u, t).mastery_probability = One
         /\ QLt(Zero, RowOf(u, t).slip_probability)) =>
            /\ RowOf(u, t)'.mastery_probability = One
            /\ RowOf(u, t)'.status = "mastered"
            /\ result'.value = One]_vars

\* a record whose learning and guess probabilities are below 1 holds
\* probability 1.0 after two incorrect results: it held 1.0 before them
C26_Witness ==
    /\ IsUpdate
    /\ ~result.is_correct
    /\ RowOf(result.user, result.topic).total_attempts = 2
    /\ RowOf(result.user, result.topic).correct_attempts = 0
    /\ RowOf(result.user, result.topic).slip_probability = <<1, 10>>
    /\ RowOf(result.user, result.topic).guess_probability = <<1, 5>>
    /\ RowOf(result.user, result.topic).learn_probability = <<1, 10>>
    /\ RowOf(result.user, result.topic).mastery_probability = One
    /\ RowOf(result.user, result.topic).status = "mastered"

\* the status transitions of a KnowledgeDocument
StatusTransitions ==
    {<<"registered", "pending_transcription">>, <<"registered", "processing">>,
     <<"pending_transcription", "transcribing">>,
     <<"transcribing", "processing">>, <<"transcribing", "failed">>,
     <<"processing", "completed">>, <<"processing", "failed">>}

\* C27: every status change ingestion makes to a KnowledgeDocument, over
\* any sequence of ingest_document and transcribe_video_task runs on it,
\* is a transition of registered -> {pending_transcription, processing},
\* pending_transcription -> {transcribing}, transcribing -> {processing,
\* failed}, processing -> {completed, failed}; completed and failed are
\* never left
C27_StatusTransitions ==
    [][\A d \in 1..Len(knowledge_documents) :
        knowledge_documents'[d].status # knowledge_documents[d].status =>
            <<knowledge_documents[d].status, knowledge_documents'[d].status>>
                \in StatusTransitions]_vars

\* C28: every run of ingest_document or transcribe_video_task on an
\* existing document ends with the document completed or failed, never
\* left registered, pending_transcription, transcribing or processing
C28_RunEndsIndexedOrFailed ==
    [][(job # NoJob /\ job' = NoJob) =>
        knowledge_documents'[job.document_id].status \in {"completed", "failed"}]_vars

\* positions of the dead letter queue that hold an entry of the call made
\* with the arguments
EntriesOf(args) ==
    {k \in 1..Len(dead_letter_queue) : dead_letter_queue[k].args = args}

\* the call ended by running out of attempts: its last iteration caught a
\* retryable exception and the wrapper raised it
Exhausted == call.pc = "raised" /\ call.outcome = call.last_error

\* C29: a call through a retry_with_backoff wrapper invokes the wrapped
\* function at most max_retries + 1 times; a call whose every attempt
\* fails with a retryable exception ends by re-raising the last exception
\* of the wrapped function, with exactly one entry for the call added to
\* the dead letter queue; a call that succeeds adds none
C29_BoundedRetries ==
    /\ call.pc # "idle" => call.invocations <= call.config.max_retries + 1
    /\ call.pc = "returned" => EntriesOf(call.id) = {}
    /\ Exhausted =>
          /\ call.outcome = call.raised_by_func
          /\ Cardinality(EntriesOf(call.id)) = 1

\* C30: once the breaker is open, a call arriving more than timeout
\* seconds after it opened is allowed to invoke the wrapped function (the
\* breaker goes half-open), whatever calls were made and rejected while it
\* was open; an attempt that succeeds closes the breaker and resets
\* failure_count to 0
C30_HalfOpenAfterTimeout ==
    [][call.pc = "running" =>
        /\ (/\ call.attempt = 0
            /\ breaker.state = "open"
            /\ now - breaker.opened_at > breaker.timeout) =>
              call'.invocations = call.invocations + 1
        /\ call'.pc = "returned" =>
              (breaker'.state = "closed" /\ breaker'.failure_count = 0)]_vars
====
